---- MODULE Spec2Model ----
(***************************************************************************)
(* Model of app.py: a Flask service that serves three JSON-file backed     *)
(* collections (employees, contractors, conversion) behind a bearer-token  *)
(* gate.  JSON values are tagged records, text that the code inspects      *)
(* character by character (the Authorization header, the tokens) is a      *)
(* sequence of one-character strings, and every handler is a pure result   *)
(* operator applied by one action.                                         *)
(***************************************************************************)
EXTENDS Integers, Sequences, FiniteSets, TLC

VARIABLES store, req, resp, prev, local, nreq, th, writes, posted

vars == <<store, req, resp, prev, local, nreq, th, writes, posted>>

(***************************************************************************)
(* Bounds of the model.                                                    *)
(***************************************************************************)
\* requests served in one behaviour
MaxRequests == 2
\* worker threads serving requests concurrently
NumThreads == 2

(***************************************************************************)
(* JSON values.  Every value is a record with the same five fields, so     *)
(* that any two values can be compared.                                    *)
(***************************************************************************)
NoMap == [k \in {} |-> 0]

\* JSON null, Python None
JNull == [t |-> "null", s |-> "", n |-> 0, items |-> <<>>, map |-> NoMap]

JStr(x) == [t |-> "str", s |-> x, n |-> 0, items |-> <<>>, map |-> NoMap]

JNum(k) == [t |-> "num", s |-> "", n |-> k, items |-> <<>>, map |-> NoMap]

JList(xs) == [t |-> "list", s |-> "", n |-> 0, items |-> xs, map |-> NoMap]

JDict(m) == [t |-> "dict", s |-> "", n |-> 0, items |-> <<>>, map |-> m]

EmptyDict == JDict(NoMap)

\* the dict {k: v}
One(k, v) == [x \in {k} |-> v]

\* the dict m with m[k] = v set (added or overwritten)
With(m, k, v) == [x \in DOMAIN m \cup {k} |-> IF x = k THEN v ELSE m[x]]

\* Python truthiness of a JSON value
Truthy(v) ==
    CASE v.t = "null" -> FALSE
      [] v.t = "str"  -> v.s # ""
      [] v.t = "num"  -> v.n # 0
      [] v.t = "list" -> v.items # <<>>
      [] v.t = "dict" -> DOMAIN v.map # {}

\* k in rec
HasKey(rec, k) == k \in DOMAIN rec.map

\* rec.get(k): None when the key is absent
DictGet(rec, k) == IF k \in DOMAIN rec.map THEN rec.map[k] ELSE JNull

\* the result of rec[k] = v
DictSet(rec, k, v) == JDict(With(rec.map, k, v))

DictUpdateKeepOld(rec, payload) ==
    JDict([k \in DOMAIN rec.map \cup DOMAIN payload.map |->
              IF k \in DOMAIN rec.map THEN rec.map[k] ELSE payload.map[k]])

\* the result of rec.update(payload): payload's fields over rec's
DictUpdate(rec, payload) ==
    JDict([k \in DOMAIN rec.map \cup DOMAIN payload.map |->
              IF k \in DOMAIN payload.map THEN payload.map[k] ELSE rec.map[k]])

Digit == <<"0", "1", "2", "3", "4", "5", "6", "7", "8", "9">>

RECURSIVE Dec(_)
\* decimal text of a natural number
Dec(k) == IF k < 10 THEN Digit[k + 1] ELSE Dec(k \div 10) \o Digit[(k % 10) + 1]

PyStr_StringsOnly(v) == IF v.t = "str" THEN v.s ELSE ""

\* str(v) for the scalar values a key field holds
PyStr(v) ==
    CASE v.t = "str"  -> v.s
      [] v.t = "num"  -> IF v.n < 0 THEN "-" \o Dec(-v.n) ELSE Dec(v.n)
      [] v.t = "null" -> "None"

(***************************************************************************)
(* Configuration.                                                          *)
(***************************************************************************)
ACCESS_TOKEN ==
    <<"m", "y", "s", "e", "c", "r", "e", "t", "t", "o", "k", "e", "n", "1", "2", "3">>

AUTO_ENSURE_ISACTIVE == TRUE

AUTO_CLEAN_TERMINATION_DATE == TRUE

(***************************************************************************)
(* The access gate.  An optional text is [none, s]; None is NoText.        *)
(***************************************************************************)
NoText == [none |-> TRUE, s |-> <<>>]

Text(cs) == [none |-> FALSE, s |-> cs]

\* Python's "not token": None or the empty string
Falsy(tok) == tok.none \/ tok.s = <<>>

BearerPrefix == <<"B", "e", "a", "r", "e", "r", " ">>

StartsWith(cs, p) == Len(cs) >= Len(p) /\ SubSeq(cs, 1, Len(p)) = p

\* cs.split(" ", 1)[1]: what follows the first space of cs
AfterFirstSpace(cs) ==
    LET i == CHOOSE j \in 1..Len(cs) : cs[j] = " " /\ \A h \in 1..(j - 1) : cs[h] # " "
    IN  SubSeq(cs, i + 1, Len(cs))

RECURSIVE LStrip(_)
LStrip(cs) == IF cs # <<>> /\ Head(cs) = " " THEN LStrip(Tail(cs)) ELSE cs

RECURSIVE RStrip(_)
RStrip(cs) ==
    IF cs # <<>> /\ cs[Len(cs)] = " " THEN RStrip(SubSeq(cs, 1, Len(cs) - 1)) ELSE cs

\* cs.strip()
Strip(cs) == RStrip(LStrip(cs))

\* request.headers.get("Authorization", "")
HeaderGet(headers) ==
    IF "Authorization" \in DOMAIN headers THEN headers["Authorization"] ELSE <<>>

\* request.args.get("access_token")
ArgsGet(args) ==
    IF "access_token" \in DOMAIN args THEN Text(args["access_token"]) ELSE NoText

\* the token the gate compares: the header's bearer token, else the query parameter
GateToken(headers, args) ==
    LET auth_header == HeaderGet(headers)
        token == IF StartsWith(auth_header, BearerPrefix)
                 THEN Text(Strip(AfterFirstSpace(auth_header)))
                 ELSE NoText
    IN  IF Falsy(token) THEN ArgsGet(args) ELSE token

require_token_QueryFirst(headers, args) ==
    LET q == ArgsGet(args)
        token == IF Falsy(q) THEN GateToken(headers, [x \in {} |-> <<>>]) ELSE q
    IN  IF Falsy(token) THEN 401
        ELSE IF token.s # ACCESS_TOKEN THEN 403
        ELSE 0

\* the decorator's verdict: 401, 403, or 0 when the wrapped handler is called
require_token(headers, args) ==
    LET token == GateToken(headers, args)
    IN  IF Falsy(token) THEN 401
        ELSE IF token.s # ACCESS_TOKEN THEN 403
        ELSE 0

(***************************************************************************)
(* File helpers.  A wrapper key is [none, k]; None is NoKey.               *)
(***************************************************************************)
NoKey == [none |-> TRUE, k |-> ""]

Key(k) == [none |-> FALSE, k |-> k]

extract_entries_WrapUnknown(obj) ==
    IF obj.t = "dict" /\ "Report_Entry" \in DOMAIN obj.map
                      /\ obj.map["Report_Entry"].t = "list"
    THEN [entries |-> obj.map["Report_Entry"].items, wrapper_key |-> Key("Report_Entry")]
    ELSE IF obj.t = "list"
    THEN [entries |-> obj.items, wrapper_key |-> NoKey]
    ELSE [entries |-> <<>>, wrapper_key |-> Key("Report_Entry")]

extract_entries_NoWrapper(obj) ==
    IF obj.t = "dict" /\ "Report_Entry" \in DOMAIN obj.map
                      /\ obj.map["Report_Entry"].t = "list"
    THEN [entries |-> obj.map["Report_Entry"].items, wrapper_key |-> NoKey]
    ELSE IF obj.t = "list"
    THEN [entries |-> obj.items, wrapper_key |-> NoKey]
    ELSE [entries |-> <<>>, wrapper_key |-> NoKey]

\* (entries, wrapper_key) of a loaded document
extract_entries(obj) ==
    IF obj.t = "dict" /\ "Report_Entry" \in DOMAIN obj.map
                      /\ obj.map["Report_Entry"].t = "list"
    THEN [entries |-> obj.map["Report_Entry"].items, wrapper_key |-> Key("Report_Entry")]
    ELSE IF obj.t = "list"
    THEN [entries |-> obj.items, wrapper_key |-> NoKey]
    ELSE [entries |-> <<>>, wrapper_key |-> NoKey]

rewrap_Bare(entries, wrapper_key) == JList(entries)

\* the document that holds entries in the shape they were loaded from
rewrap(entries, wrapper_key) ==
    IF ~wrapper_key.none /\ wrapper_key.k # ""
    THEN JDict(One(wrapper_key.k, JList(entries)))
    ELSE JList(entries)

\* td in (None, "NA")
IsNoneOrNA(td) == td = JNull \/ td = JStr("NA")

IsActiveMissing_AbsentOnly(rec) == ~HasKey(rec, "IsActive")

\* "IsActive" not in rec or rec.get("IsActive") in (None, "")
IsActiveMissing(rec) ==
    \/ ~HasKey(rec, "IsActive")
    \/ DictGet(rec, "IsActive") = JNull
    \/ DictGet(rec, "IsActive") = JStr("")

normalize_rec_Chained(rec, clean, ensure) ==
    LET td == DictGet(rec, "Termination_Date")
        r1 == IF clean /\ td = JStr("NA")
              THEN DictSet(rec, "Termination_Date", JNull)
              ELSE IF clean /\ td = JNull
              THEN DictSet(rec, "Termination_Date", JStr(""))
              ELSE rec
    IN  IF ensure /\ IsActiveMissing(r1)
        THEN DictSet(r1, "IsActive", JStr("true"))
        ELSE r1

\* one pass of the loop body of normalize_for_saviynt over rec, with the two
\* configuration flags as clean and ensure
normalize_rec_cfg(rec, clean, ensure) ==
    LET r1 == IF clean /\ IsNoneOrNA(DictGet(rec, "Termination_Date"))
              THEN DictSet(rec, "Termination_Date", JStr(""))
              ELSE rec
    IN  IF ensure /\ IsActiveMissing(r1)
        THEN DictSet(r1, "IsActive", JStr("true"))
        ELSE r1

\* the loop body under the configured flags
normalize_rec(rec) ==
    normalize_rec_cfg(rec, AUTO_CLEAN_TERMINATION_DATE, AUTO_ENSURE_ISACTIVE)

\* the entries as normalize_for_saviynt leaves them under flags clean and ensure
normalize_cfg(entries, clean, ensure) ==
    [i \in 1..Len(entries) |-> normalize_rec_cfg(entries[i], clean, ensure)]

\* the entries as normalize_for_saviynt leaves them
normalize_for_saviynt(entries) == [i \in 1..Len(entries) |-> normalize_rec(entries[i])]

get_json_Raw(body) == body

\* request.get_json(force=True, silent=True) or {}
get_json_or_empty(body) == IF Truthy(body) THEN body ELSE EmptyDict

Min(S) == CHOOSE x \in S : \A y \in S : x <= y

next_key_Default(key_candidates, entries, default) == default

next_key_FirstRecord(key_candidates, entries, default) ==
    LET present == {i \in 1..Len(key_candidates) :
                       entries # <<>> /\ HasKey(entries[1], key_candidates[i])}
    IN  IF present = {} THEN default ELSE key_candidates[Min(present)]

\* next((k for k in key_candidates if any(k in rec for rec in entries)), default)
next_key(key_candidates, entries, default) ==
    LET present == {i \in 1..Len(key_candidates) :
                       \E j \in 1..Len(entries) : HasKey(entries[j], key_candidates[i])}
    IN  IF present = {} THEN default ELSE key_candidates[Min(present)]

\* str(rec.get(key_name)) == str(emp_id)
Matches(rec, key_name, emp_id) == PyStr(DictGet(rec, key_name)) = emp_id

\* the indexes of the records that match the identifier
MatchSet(entries, key_name, emp_id) ==
    {i \in 1..Len(entries) : Matches(entries[i], key_name, emp_id)}

update_first_All(entries, key_name, emp_id, payload) ==
    [i \in 1..Len(entries) |->
        IF Matches(entries[i], key_name, emp_id)
        THEN DictUpdate(entries[i], payload) ELSE entries[i]]

\* the entries after the PUT loop: the first matching record updated
update_first(entries, key_name, emp_id, payload) ==
    LET hit == MatchSet(entries, key_name, emp_id)
    IN  IF hit = {} THEN entries
        ELSE [i \in 1..Len(entries) |->
                 IF i = Min(hit) THEN DictUpdate(entries[i], payload) ELSE entries[i]]

RECURSIVE drop_matching_First(_, _, _)
drop_matching_First(entries, key_name, emp_id) ==
    IF entries = <<>> THEN <<>>
    ELSE IF Matches(Head(entries), key_name, emp_id) THEN Tail(entries)
    ELSE <<Head(entries)>> \o drop_matching_First(Tail(entries), key_name, emp_id)

\* [rec for rec in entries if str(rec.get(key_name)) != str(emp_id)]
drop_matching(entries, key_name, emp_id) ==
    SelectSeq(entries, LAMBDA rec : ~Matches(rec, key_name, emp_id))

append_Front(entries, new_item) == <<new_item>> \o entries

\* the entries after entries.append(new_item)
append(entries, new_item) == Append(entries, new_item)

\* jsonify({"error": msg})
ErrorBody(msg) == JDict(One("error", JStr(msg)))

\* jsonify({"message": msg})
MessageBody(msg) == JDict(One("message", JStr(msg)))

\* jsonify({"message": msg, "data": data})
DataBody(msg, data) == JDict(With(One("message", JStr(msg)), "data", data))

\* what a handler did: its response, whether it saved, the document it saved
\* and the key field it used ("" when it resolved none)
Result(status, body, save, data, key_name) ==
    [status |-> status, body |-> body, save |-> save, data |-> data, key_name |-> key_name]

(***************************************************************************)
(* The handlers.  A request r is [route, method, emp_id, headers, args,    *)
(* body]; body is the parsed JSON body, JNull when it is absent or         *)
(* malformed (get_json(silent=True) returns None).                         *)
(***************************************************************************)
ContractorCandidates == <<"employeeID", "Worker_ID", "contractorID">>

ConversionCandidates == <<"contractorID", "Worker_ID", "employeeID">>

employees_handler_SavesOnGet(r, data) ==
    LET ex == extract_entries(data)
        entries == ex.entries
        wrapper_key == ex.wrapper_key
        new_item == get_json_or_empty(r.body)
    IN  IF r.method = "GET"
        THEN Result(200, rewrap(normalize_for_saviynt(entries), wrapper_key), TRUE,
                    rewrap(normalize_for_saviynt(entries), wrapper_key), "")
        ELSE Result(201, DataBody("Employee added", new_item), TRUE,
                    rewrap(append(entries, new_item), wrapper_key), "")

\* employees_handler, on the document data it loaded
employees_handler(r, data) ==
    LET ex == extract_entries(data)
        entries == ex.entries
        wrapper_key == ex.wrapper_key
        new_item == get_json_or_empty(r.body)
    IN  IF r.method = "GET"
        THEN Result(200, rewrap(normalize_for_saviynt(entries), wrapper_key), FALSE, data, "")
        ELSE Result(201, DataBody("Employee added", new_item), TRUE,
                    rewrap(append(entries, new_item), wrapper_key), "")

\* employee_update_delete, on the document data it loaded
employee_update_delete(r, data) ==
    LET ex == extract_entries(data)
        entries == ex.entries
        wrapper_key == ex.wrapper_key
        key_name == "Worker_ID"
        payload == get_json_or_empty(r.body)
        hit == MatchSet(entries, key_name, r.emp_id)
        updated == update_first(entries, key_name, r.emp_id, payload)
        new_entries == drop_matching(entries, key_name, r.emp_id)
    IN  IF r.method = "PUT"
        THEN IF hit # {}
             THEN Result(200, DataBody("Employee updated", payload), TRUE,
                         rewrap(updated, wrapper_key), key_name)
             ELSE Result(404, ErrorBody("Not found"), FALSE, data, key_name)
        ELSE IF Len(new_entries) # Len(entries)
             THEN Result(200, MessageBody("Employee deleted"), TRUE,
                         rewrap(new_entries, wrapper_key), key_name)
             ELSE Result(404, ErrorBody("Not found"), FALSE, data, key_name)

\* contractors_handler, on the document data it loaded
contractors_handler(r, data) ==
    LET ex == extract_entries(data)
        entries == ex.entries
        wrapper_key == ex.wrapper_key
        new_item == get_json_or_empty(r.body)
    IN  IF r.method = "GET"
        THEN Result(200, rewrap(normalize_for_saviynt(entries), wrapper_key), FALSE, data, "")
        ELSE Result(201, DataBody("Contractor added", new_item), TRUE,
                    rewrap(append(entries, new_item), wrapper_key), "")

\* contractor_update_delete, on the document data it loaded
contractor_update_delete(r, data) ==
    LET ex == extract_entries(data)
        entries == ex.entries
        wrapper_key == ex.wrapper_key
        key_name == next_key(ContractorCandidates, entries, "employeeID")
        payload == get_json_or_empty(r.body)
        hit == MatchSet(entries, key_name, r.emp_id)
        updated == update_first(entries, key_name, r.emp_id, payload)
        new_entries == drop_matching(entries, key_name, r.emp_id)
    IN  IF r.method = "PUT"
        THEN IF hit # {}
             THEN Result(200, DataBody("Contractor updated", updated[Min(hit)]), TRUE,
                         rewrap(updated, wrapper_key), key_name)
             ELSE Result(404, ErrorBody("Not found"), FALSE, data, key_name)
        ELSE IF Len(new_entries) # Len(entries)
             THEN Result(200, MessageBody("Contractor deleted"), TRUE,
                         rewrap(new_entries, wrapper_key), key_name)
             ELSE Result(404, ErrorBody("Not found"), FALSE, data, key_name)

conversion_handler_Normalizes(r, data) ==
    LET ex == extract_entries(data)
        entries == ex.entries
        wrapper_key == ex.wrapper_key
        new_item == get_json_or_empty(r.body)
    IN  IF r.method = "GET"
        THEN Result(200, rewrap(normalize_for_saviynt(entries), wrapper_key), FALSE, data, "")
        ELSE Result(201, DataBody("Conversion added", new_item), TRUE,
                    rewrap(append(entries, new_item), wrapper_key), "")

\* conversion_handler, on the document data it loaded
conversion_handler(r, data) ==
    LET ex == extract_entries(data)
        entries == ex.entries
        wrapper_key == ex.wrapper_key
        new_item == get_json_or_empty(r.body)
    IN  IF r.method = "GET"
        THEN Result(200, rewrap(entries, wrapper_key), FALSE, data, "")
        ELSE Result(201, DataBody("Conversion added", new_item), TRUE,
                    rewrap(append(entries, new_item), wrapper_key), "")

\* conversion_update_delete, on the document data it loaded
conversion_update_delete(r, data) ==
    LET ex == extract_entries(data)
        entries == ex.entries
        wrapper_key == ex.wrapper_key
        key_name == next_key(ConversionCandidates, entries, "contractorID")
        payload == get_json_or_empty(r.body)
        hit == MatchSet(entries, key_name, r.emp_id)
        updated == update_first(entries, key_name, r.emp_id, payload)
        new_entries == drop_matching(entries, key_name, r.emp_id)
    IN  IF r.method = "PUT"
        THEN IF hit # {}
             THEN Result(200, DataBody("Conversion updated", updated[Min(hit)]), TRUE,
                         rewrap(updated, wrapper_key), key_name)
             ELSE Result(404, ErrorBody("Not found"), FALSE, data, key_name)
        ELSE IF Len(new_entries) # Len(entries)
             THEN Result(200, MessageBody("Conversion deleted"), TRUE,
                         rewrap(new_entries, wrapper_key), key_name)
             ELSE Result(404, ErrorBody("Not found"), FALSE, data, key_name)

(***************************************************************************)
(* Routing and the gate around a handler.                                  *)
(***************************************************************************)
Routes ==
    {"employees_handler", "employee_update_delete", "contractors_handler",
     "contractor_update_delete", "conversion_handler", "conversion_update_delete"}

ListRoutes == {"employees_handler", "contractors_handler", "conversion_handler"}

Files == {"employees.json", "contractors.json", "conversion.json"}

\* the file a route loads and saves
FileOf(route) ==
    CASE route \in {"employees_handler", "employee_update_delete"} -> "employees.json"
      [] route \in {"contractors_handler", "contractor_update_delete"} -> "contractors.json"
      [] route \in {"conversion_handler", "conversion_update_delete"} -> "conversion.json"

\* the handler a route names, applied
Handler(r, data) ==
    CASE r.route = "employees_handler" -> employees_handler(r, data)
      [] r.route = "employee_update_delete" -> employee_update_delete(r, data)
      [] r.route = "contractors_handler" -> contractors_handler(r, data)
      [] r.route = "contractor_update_delete" -> contractor_update_delete(r, data)
      [] r.route = "conversion_handler" -> conversion_handler(r, data)
      [] r.route = "conversion_update_delete" -> conversion_update_delete(r, data)

\* the answer of the gate when it does not call the handler
Rejected(status, data) ==
    [status |-> status,
     body |-> ErrorBody(IF status = 401 THEN "Missing access token"
                        ELSE "Invalid access token"),
     save |-> FALSE, data |-> data, key_name |-> "", called |-> FALSE]

\* the handler's answer, marked as called
Called(res) ==
    [status |-> res.status, body |-> res.body, save |-> res.save, data |-> res.data,
     key_name |-> res.key_name, called |-> TRUE]

decorated_HandlerFirst(r, files) ==
    LET gate == require_token(r.headers, r.args)
        res == Handler(r, files[FileOf(r.route)])
    IN  IF gate # 0
        THEN [status |-> gate,
              body |-> ErrorBody(IF gate = 401 THEN "Missing access token"
                                 ELSE "Invalid access token"),
              save |-> res.save, data |-> res.data, key_name |-> res.key_name,
              called |-> TRUE]
        ELSE Called(res)

\* decorated(*args): the gate, then the handler on the document in the file
decorated(r, files) ==
    LET gate == require_token(r.headers, r.args)
    IN  IF gate # 0 THEN Rejected(gate, files[FileOf(r.route)])
        ELSE Called(Handler(r, files[FileOf(r.route)]))

\* the files after save_data(filename, data)
save_data(files, filename, data) == [files EXCEPT ![filename] = data]

\* the files after a request whose outcome is res
Saved(files, r, res) ==
    IF res.called /\ res.save THEN save_data(files, FileOf(r.route), res.data) ELSE files

(***************************************************************************)
(* Inputs: records, documents, identifiers, bodies and credentials.        *)
(***************************************************************************)
rA == JDict(("Worker_ID" :> JStr("1")) @@ ("Termination_Date" :> JStr("NA")))

rB == JDict(("Worker_ID" :> JNum(1)) @@ ("IsActive" :> JStr("")))

rC == JDict(("Worker_ID" :> JStr("2")) @@ ("Termination_Date" :> JNull)
            @@ ("IsActive" :> JStr("false")))

rD == JDict(("employeeID" :> JStr("2")) @@ ("Termination_Date" :> JStr("2024-01-01"))
            @@ ("IsActive" :> JNull))

rE == JDict(("contractorID" :> JStr("1")) @@ ("Worker_ID" :> JStr("2")))

rF == JDict("Name" :> JStr("x"))

bP == JDict("IsActive" :> JStr("false"))

bQ == JDict("contractorID" :> JStr("2"))

bR == JDict("Worker_ID" :> JStr("2"))

\* the documents a file can hold when the service starts
Docs ==
    << JDict("Report_Entry" :> JList(<<rA>>)),
       JList(<<rA, rD, rB, rC>>),
       JDict("Report_Entry" :> JList(<<rE, rF, rE>>)),
       JList(<<>>),
       JDict(("Report_Entry" :> JList(<<rF>>)) @@ ("Total" :> JNum(1))),
       JDict("Report_Entry" :> JStr("x")),
       JNum(0) >>

\* the files at start: every file holds each document in one of the starts
InitStores ==
    { [f \in Files |->
          Docs[((i + (CASE f = "employees.json" -> 0
                        [] f = "contractors.json" -> 1
                        [] f = "conversion.json" -> 2)) % Len(Docs)) + 1]]
      : i \in 1..Len(Docs) }

Ids == {"1", "2", "None"}

\* parsed request bodies; JNull is an absent or malformed body
Bodies == {JNull, bP, bQ, bR}

BadToken == <<"b", "a", "d">>

NoFields == [x \in {} |-> <<>>]

HeaderCases ==
    { NoFields,
      "Authorization" :> (BearerPrefix \o ACCESS_TOKEN),
      "Authorization" :> (BearerPrefix \o BadToken),
      "Authorization" :> BearerPrefix,
      "Authorization" :> (BearerPrefix \o <<" ">> \o ACCESS_TOKEN \o <<" ">>),
      "Authorization" :> (<<"B", "a", "s", "i", "c", " ">> \o ACCESS_TOKEN) }

ArgCases ==
    { NoFields,
      "access_token" :> <<>>,
      "access_token" :> ACCESS_TOKEN,
      "access_token" :> BadToken }

MethodsOf(route) == IF route \in ListRoutes THEN {"GET", "POST"} ELSE {"PUT", "DELETE"}

Request(route, method, emp_id, headers, args, body) ==
    [route |-> route, method |-> method, emp_id |-> emp_id, headers |-> headers,
     args |-> args, body |-> body]

\* requests that carry the configured token in the header
AuthorizedRequests ==
    { Request(route, method, emp_id, "Authorization" :> (BearerPrefix \o ACCESS_TOKEN),
              NoFields, body) :
        route \in Routes, method \in {"GET", "POST", "PUT", "DELETE"},
        emp_id \in Ids \cup {""}, body \in Bodies }

\* one request per route and method under every combination of credentials
CredentialRequests ==
    { Request(route, method, IF route \in ListRoutes THEN "" ELSE "1", h, a,
              IF method \in {"GET", "DELETE"} THEN JNull ELSE bP) :
        route \in Routes, method \in {"GET", "POST", "PUT", "DELETE"},
        h \in HeaderCases, a \in ArgCases }

\* a request the router accepts: the method is one of the route's, the list
\* routes have no identifier, and a GET or DELETE carries no body
WellFormed(r) ==
    /\ r.method \in MethodsOf(r.route)
    /\ (r.route \in ListRoutes) = (r.emp_id = "")
    /\ r.method \in {"GET", "DELETE"} => r.body = JNull

\* the body that names Worker_ID creates an employee, whose key field it is,
\* and the body that names contractorID goes to the other routes
Keyed(r) ==
    /\ r.body = bR => r.route = "employees_handler"
    /\ r.body = bQ => r.route # "employees_handler"

Requests ==
    {r \in AuthorizedRequests \cup CredentialRequests : WellFormed(r) /\ Keyed(r)}

(***************************************************************************)
(* Requests served one at a time.                                          *)
(***************************************************************************)
\* the candidate key fields of the collection a route serves
KeysOf(route) ==
    IF FileOf(route) = "employees.json" THEN <<"Worker_ID">>
    ELSE IF FileOf(route) = "contractors.json" THEN ContractorCandidates
    ELSE ConversionCandidates

NoRequest == Request("none", "none", "", NoFields, NoFields, JNull)

NoResult == [status |-> 0, body |-> JNull, save |-> FALSE, data |-> JNull,
             key_name |-> "", called |-> FALSE]

NoThread == [pc |-> "idle", req |-> NoRequest, loaded |-> JNull, res |-> NoResult,
             seen |-> 0]

\* the request before this one posted no record
NoPosted == [route |-> "none", item |-> JNull, data |-> JNull]

Init ==
    /\ store \in InitStores
    /\ req = NoRequest
    /\ resp = [status |-> 0, body |-> JNull]
    /\ prev = store
    /\ local = [called |-> FALSE, save |-> FALSE, key_name |-> ""]
    /\ nreq = 0
    /\ th = [w \in 1..NumThreads |-> NoThread]
    /\ writes = <<>>
    /\ posted = NoPosted

\* no request is being served and the behaviour may serve another one
Idle == req = NoRequest /\ nreq < MaxRequests

\* the whole of one request: gate, load, handler, save, response
Serve(r) ==
    /\ LET res == decorated(r, store)
       IN  /\ store' = Saved(store, r, res)
           /\ resp' = [status |-> res.status, body |-> res.body]
           /\ local' = [called |-> res.called, save |-> res.save, key_name |-> res.key_name]
    /\ req' = r
    /\ prev' = store
    /\ nreq' = nreq + 1
    /\ UNCHANGED <<th, writes, posted>>

Serve_employees_handler ==
    /\ Idle
    /\ \E r \in Requests : r.route = "employees_handler" /\ Serve(r)

Serve_employee_update_delete ==
    /\ Idle
    /\ \E r \in Requests : r.route = "employee_update_delete" /\ Serve(r)

Serve_contractors_handler ==
    /\ Idle
    /\ \E r \in Requests : r.route = "contractors_handler" /\ Serve(r)

Serve_contractor_update_delete ==
    /\ Idle
    /\ \E r \in Requests : r.route = "contractor_update_delete" /\ Serve(r)

Serve_conversion_handler ==
    /\ Idle
    /\ \E r \in Requests : r.route = "conversion_handler" /\ Serve(r)

Serve_conversion_update_delete ==
    /\ Idle
    /\ \E r \in Requests : r.route = "conversion_update_delete" /\ Serve(r)

\* the response has been sent and the request context is gone; what stays for
\* the next request to be compared with is the record a POST appended, when it
\* carries a candidate key field, and the document it appended it to
Respond ==
    /\ req # NoRequest
    /\ posted' = IF /\ local.called /\ req.method = "POST"
                     /\ \E i \in 1..Len(KeysOf(req.route)) :
                           KeysOf(req.route)[i] \in DOMAIN resp.body.map["data"].map
                  THEN [route |-> req.route, item |-> resp.body.map["data"],
                        data |-> prev[FileOf(req.route)]]
                  ELSE NoPosted
    /\ req' = NoRequest
    /\ resp' = [status |-> 0, body |-> JNull]
    /\ local' = [called |-> FALSE, save |-> FALSE, key_name |-> ""]
    /\ prev' = store
    /\ UNCHANGED <<store, nreq, th, writes>>

Next ==
    \/ Respond
    \/ Serve_employees_handler
    \/ Serve_employee_update_delete
    \/ Serve_contractors_handler
    \/ Serve_contractor_update_delete
    \/ Serve_conversion_handler
    \/ Serve_conversion_update_delete

Spec == Init /\ [][Next]_vars

(***************************************************************************)
(* Requests served concurrently, one thread per request.  A handler reads  *)
(* its file once, when it starts, and writes it once, when it saves; the   *)
(* steps of different threads interleave between the two.                  *)
(***************************************************************************)
\* the requests the threads serve
ConcRequests ==
    {r \in Requests : /\ r.headers = ("Authorization" :> (BearerPrefix \o ACCESS_TOKEN))
                      /\ r.args = NoFields
                      /\ r.emp_id \in {"", "1"}
                      /\ r.body \in {JNull, bQ}}

\* gate, load_data and the handler up to its save_data or its return
Begin(w) ==
    /\ th[w].pc = "idle"
    /\ \E r \in ConcRequests :
          \E res \in {decorated(r, store)} :
              th' = [th EXCEPT ![w] =
                        [pc |-> IF res.called /\ res.save THEN "save" ELSE "done",
                         req |-> r, loaded |-> store[FileOf(r.route)], res |-> res,
                         seen |-> Len(writes)]]
    /\ UNCHANGED <<store, writes, req, resp, prev, local, nreq, posted>>

PendingDoc_Reloaded(files, t) == Handler(t.req, files[FileOf(t.req.route)]).data

\* the document thread state t passes to save_data: the one its handler built
\* from the document it loaded
PendingDoc(files, t) == t.res.data

\* save_data and the return of the response
Save(w) ==
    /\ th[w].pc = "save"
    /\ store' = save_data(store, FileOf(th[w].req.route), PendingDoc(store, th[w]))
    /\ writes' = Append(writes, w)
    /\ th' = [th EXCEPT ![w].pc = "done"]
    /\ UNCHANGED <<req, resp, prev, local, nreq, posted>>

NextConc == \E w \in 1..NumThreads : Begin(w) \/ Save(w)

SpecConc == Init /\ [][NextConc]_vars

(***************************************************************************)
(* Properties of a served request.  They are read in the state Serve       *)
(* leaves: req is the request, prev the files before it, store the files   *)
(* after it, resp the response and local what the handler did.             *)
(***************************************************************************)
Done == req # NoRequest

\* the handler ran (the gate let the request through)
Ran(method) == Done /\ local.called /\ req.method = method

TheFile == FileOf(req.route)

\* the records of a document, as a request sees them
EntriesOf(doc) ==
    IF doc.t = "list" THEN doc.items
    ELSE IF doc.t = "dict" /\ "Report_Entry" \in DOMAIN doc.map
                           /\ doc.map["Report_Entry"].t = "list"
    THEN doc.map["Report_Entry"].items
    ELSE <<>>

Before == EntriesOf(prev[TheFile])

After == EntriesOf(store[TheFile])

\* the fields of the request body; none when the body is absent or malformed
BodyFields == IF req.body.t = "dict" THEN req.body.map ELSE NoMap

\* the indexes of the stored records whose key-field value, as a string, is the
\* path identifier; the key-field value of a record is rec.get(key), which is
\* None for a record without the field
Hits == {i \in 1..Len(Before) : PyStr(DictGet(Before[i], local.key_name)) = req.emp_id}

RECURSIVE Without(_, _, _)
\* the records of xs at the indexes from i on that are not in drop, in order
Without(xs, drop, i) ==
    IF i > Len(xs) THEN <<>>
    ELSE (IF i \in drop THEN <<>> ELSE <<xs[i]>>) \o Without(xs, drop, i + 1)

\* C1: a PUT whose identifier equals, as a string, the key-field value of a
\* stored record is answered 200 and persists that record (the first such
\* record) with the body's fields merged over it, the fields the body does not
\* name keeping their values; a PUT whose identifier matches no record is
\* answered 404 and leaves every file as it was.
C1_PutMergesOrNotFound ==
    Ran("PUT") =>
        IF Hits = {}
        THEN resp.status = 404 /\ store = prev
        ELSE /\ resp.status = 200
             /\ Len(After) = Len(Before)
             /\ LET old == Before[Min(Hits)].map
                    new == After[Min(Hits)].map
                IN  /\ DOMAIN new = DOMAIN old \cup DOMAIN BodyFields
                    /\ \A f \in DOMAIN BodyFields : new[f] = BodyFields[f]
                    /\ \A f \in DOMAIN old \ DOMAIN BodyFields : new[f] = old[f]

\* a PUT has overwritten one field of a record and kept another
C1_Witness ==
    /\ Ran("PUT") /\ resp.status = 200 /\ Hits # {}
    /\ \E f \in DOMAIN BodyFields :
          /\ f \in DOMAIN Before[Min(Hits)].map
          /\ Before[Min(Hits)].map[f] # BodyFields[f]
    /\ DOMAIN Before[Min(Hits)].map \ DOMAIN BodyFields # {}

\* C2: a DELETE whose identifier matches, as a string, the key-field value of
\* at least one record is answered 200 and persists the records that do not
\* match, in their order; a DELETE whose identifier matches no record is
\* answered 404 and leaves every file as it was.
C2_DeleteRemovesAllOrNotFound ==
    Ran("DELETE") =>
        IF Hits = {}
        THEN resp.status = 404 /\ store = prev
        ELSE /\ resp.status = 200
             /\ After = Without(Before, Hits, 1)
             /\ \A f \in Files \ {TheFile} : store[f] = prev[f]

\* a DELETE has removed two records and kept two, with a kept one between them
C2_Witness ==
    /\ Ran("DELETE") /\ resp.status = 200
    /\ Cardinality(Hits) = 2
    /\ Len(After) = 2
    /\ \E i \in 1..Len(Before) : i \notin Hits /\ \E h \in Hits : h > i

\* the candidates a route resolves its key field from
CandidatesOf(route) ==
    IF route = "contractor_update_delete" THEN ContractorCandidates
    ELSE ConversionCandidates

Resolving == Done /\ local.called
             /\ req.route \in {"contractor_update_delete", "conversion_update_delete"}

\* the positions of the candidates that are a field of some stored record
PresentCandidates ==
    {i \in 1..Len(CandidatesOf(req.route)) :
        \E j \in 1..Len(Before) : CandidatesOf(req.route)[i] \in DOMAIN Before[j].map}

\* C3 as stated: the key field is the first candidate present in some record,
\* and the last candidate of the list when none is present.
C3_FallbackIsLastCandidate ==
    Resolving =>
        local.key_name =
            IF PresentCandidates = {}
            THEN CandidatesOf(req.route)[Len(CandidatesOf(req.route))]
            ELSE CandidatesOf(req.route)[Min(PresentCandidates)]

\* C3: the key field is the first candidate, in list order, that is a field of
\* some stored record, and the first candidate of the list when none is present
\* (in particular when there are no records).
C3_FallbackIsFirstCandidate ==
    Resolving =>
        local.key_name =
            IF PresentCandidates = {}
            THEN CandidatesOf(req.route)[1]
            ELSE CandidatesOf(req.route)[Min(PresentCandidates)]

\* a key field was resolved for records that hold none of the candidates
C3_Witness ==
    /\ Resolving /\ Before # <<>> /\ PresentCandidates = {}
    /\ local.key_name = CandidatesOf(req.route)[1]

\* the bearer token of the Authorization header; empty when there is none
HeaderToken ==
    IF "Authorization" \in DOMAIN req.headers
       /\ Len(req.headers["Authorization"]) >= 7
       /\ SubSeq(req.headers["Authorization"], 1, 7) = BearerPrefix
    THEN Strip(SubSeq(req.headers["Authorization"], 8, Len(req.headers["Authorization"])))
    ELSE <<>>

\* the access_token query parameter; empty when there is none
QueryToken ==
    IF "access_token" \in DOMAIN req.args THEN req.args["access_token"] ELSE <<>>

\* the tokens the request supplies, in the header or in the query; an empty
\* token is no token
SuppliedTokens == {HeaderToken, QueryToken} \ {<<>>}

\* C4 as stated: no token supplied is answered 401, a supplied token that is
\* not the configured one 403, and the configured token reaches the handler.
C4_AnySuppliedToken ==
    Done =>
        /\ SuppliedTokens = {} => resp.status = 401
        /\ (\E t \in SuppliedTokens : t # ACCESS_TOKEN) => resp.status = 403
        /\ ACCESS_TOKEN \in SuppliedTokens => local.called

\* C4: the gate reads one token, the header's bearer token when that is not
\* empty and the query parameter otherwise; with that token absent or empty the
\* answer is 401 and the handler is not called, with it different from the
\* configured token 403 and the handler is not called, and with it equal to the
\* configured token the handler is called.
C4_GateByChosenToken ==
    Done =>
        LET chosen == IF HeaderToken # <<>> THEN HeaderToken ELSE QueryToken
        IN  /\ chosen = <<>> => resp.status = 401 /\ ~local.called
            /\ (chosen # <<>> /\ chosen # ACCESS_TOKEN) =>
                   resp.status = 403 /\ ~local.called
            /\ chosen = ACCESS_TOKEN => local.called /\ resp.status \notin {401, 403}

\* a request with a wrong bearer token and the right query token was refused
C4_Witness ==
    /\ Done /\ HeaderToken = BadToken /\ QueryToken = ACCESS_TOKEN
    /\ resp.status = 403 /\ ~local.called

\* a document that is a mapping holding a sequence under the wrapper key
IsWrapped(doc) ==
    /\ doc.t = "dict" /\ "Report_Entry" \in DOMAIN doc.map
    /\ doc.map["Report_Entry"].t = "list"

\* C6: a request leaves a bare sequence a bare sequence and a mapping that wraps
\* the sequence under the wrapper key a mapping with that wrapper key, so the
\* shape of a file survives any sequence of creates, updates and deletes.
C6_ShapeKept ==
    Done =>
        \A f \in Files :
            /\ prev[f].t = "list" => store[f].t = "list"
            /\ IsWrapped(prev[f]) => IsWrapped(store[f])

\* a second saving request in a row has rewritten a wrapped file
C6_Witness ==
    /\ Done /\ local.called /\ local.save /\ nreq = 2
    /\ IsWrapped(prev[TheFile]) /\ IsWrapped(store[TheFile])
    /\ store[TheFile] # prev[TheFile]
    /\ prev \notin InitStores

\* C7: a GET saves nothing: every file holds after it what it held before,
\* also on employees and contractors, whose records the response normalizes.
C7_GetSavesNothing ==
    (Done /\ req.method = "GET") => store = prev /\ ~local.save

\* a GET answered records that differ from the stored ones, and stored nothing
C7_Witness ==
    /\ Ran("GET") /\ req.route = "employees_handler"
    /\ resp.status = 200 /\ EntriesOf(resp.body) # Before /\ Before # <<>>
    /\ store = prev

\* the value a GET on employees or contractors returns for field f of rec
Shaped(rec, f) ==
    IF f = "Termination_Date"
       /\ (f \notin DOMAIN rec.map \/ rec.map[f].t = "null" \/ rec.map[f] = JStr("NA"))
    THEN JStr("")
    ELSE IF f = "IsActive"
       /\ (f \notin DOMAIN rec.map \/ rec.map[f].t = "null" \/ rec.map[f] = JStr(""))
    THEN JStr("true")
    ELSE rec.map[f]

\* C8: a GET on employees or contractors is answered 200 with the stored
\* records in the file's envelope shape, each with Termination_Date "" when
\* it was absent, null or "NA", IsActive "true" when it was absent, null or "",
\* and every other value as stored.
C8_GetNormalizes ==
    (Ran("GET") /\ req.route \in {"employees_handler", "contractors_handler"}) =>
        /\ resp.status = 200
        /\ prev[TheFile].t = "list" => resp.body.t = "list"
        /\ IsWrapped(prev[TheFile]) => IsWrapped(resp.body)
        /\ Len(EntriesOf(resp.body)) = Len(Before)
        /\ \A i \in 1..Len(Before) :
              LET out == EntriesOf(resp.body)[i].map
              IN  /\ DOMAIN out = DOMAIN Before[i].map \cup {"Termination_Date", "IsActive"}
                  /\ \A f \in DOMAIN out : out[f] = Shaped(Before[i], f)

\* GET /employees on {"Report_Entry": [{"Worker_ID": "1", "Termination_Date": "NA"}]}
C8_Witness ==
    /\ Ran("GET") /\ req.route = "employees_handler"
    /\ prev[TheFile] = JDict("Report_Entry" :> JList(<<rA>>))
    /\ resp.body = JDict("Report_Entry" :> JList(<<
           JDict(("Worker_ID" :> JStr("1")) @@ ("Termination_Date" :> JStr(""))
                 @@ ("IsActive" :> JStr("true"))) >>))

\* C9: a POST is answered 201 with the created record and persists the stored
\* records, in their order, followed by the record of the request body.
C9_PostAppends ==
    Ran("POST") =>
        LET created == JDict(BodyFields)
        IN  /\ resp.status = 201
            /\ resp.body.map["data"] = created
            /\ After = Before \o <<created>>
            /\ \A f \in Files \ {TheFile} : store[f] = prev[f]

\* a POST has added a record after the records of a file that had several
C9_Witness ==
    /\ Ran("POST") /\ resp.status = 201 /\ Len(Before) >= 2
    /\ BodyFields # NoMap /\ After[Len(After)] = req.body
    /\ SubSeq(After, 1, Len(Before)) = Before

\* a bare sequence, or a mapping whose single field is the wrapper key holding
\* a sequence
ValidShape(doc) ==
    \/ doc.t = "list"
    \/ /\ doc.t = "dict" /\ DOMAIN doc.map = {"Report_Entry"}
       /\ doc.map["Report_Entry"].t = "list"

\* C10: rewrap of what extract_entries returns for a document of a valid shape
\* is that document, for every document a file holds.
C10_RoundTrip ==
    \A f \in Files :
        ValidShape(store[f]) =>
            rewrap(extract_entries(store[f]).entries,
                   extract_entries(store[f]).wrapper_key) = store[f]

\* a GET on conversion, which answers rewrap of the extracted entries, has
\* answered the wrapped document itself
C10_Witness ==
    /\ Ran("GET") /\ req.route = "conversion_handler"
    /\ ValidShape(prev[TheFile]) /\ prev[TheFile].t = "dict" /\ Before # <<>>
    /\ resp.body = prev[TheFile]

\* the position of thread w's save among the saves
SavePos(w) == CHOOSE i \in 1..Len(writes) : writes[i] = w

\* threads a and b raced on one file: b loaded it before a saved it, a saved
\* first, b saved last, and both have answered
Raced(a, b) ==
    /\ a # b
    /\ th[a].pc = "done" /\ th[a].res.save
    /\ th[b].pc = "done" /\ th[b].res.save
    /\ FileOf(th[a].req.route) = FileOf(th[b].req.route)
    /\ SavePos(a) < SavePos(b)
    /\ th[b].seen < SavePos(a)
    /\ \A i \in (SavePos(b) + 1)..Len(writes) :
          FileOf(th[writes[i]].req.route) # FileOf(th[b].req.route)

\* C5: when two requests on one file have both loaded it before either saved,
\* the file holds what the request that saved last made of the document it had
\* loaded, the other request answered success all the same, and a record the
\* other request created is not in the file unless the last one created it too.
C5_LastSaveWins ==
    \A a, b \in 1..NumThreads :
        Raced(a, b) =>
            /\ store[FileOf(th[b].req.route)] = Handler(th[b].req, th[b].loaded).data
            /\ th[a].res.status \in {200, 201}
            /\ (/\ th[a].req.method = "POST"
                /\ th[b].req.body # th[a].req.body
                /\ \A i \in 1..Len(EntriesOf(th[b].loaded)) :
                      EntriesOf(th[b].loaded)[i] # th[a].res.body.map["data"])
               => \A i \in 1..Len(EntriesOf(store[FileOf(th[b].req.route)])) :
                      EntriesOf(store[FileOf(th[b].req.route)])[i]
                          # th[a].res.body.map["data"]

\* two POSTs raced and the record of the first is lost
C5_Witness ==
    \E a, b \in 1..NumThreads :
        /\ Raced(a, b)
        /\ th[a].req.method = "POST" /\ th[b].req.method = "POST"
        /\ th[a].req.body = bQ /\ th[b].req.body = JNull
        /\ th[a].loaded = th[b].loaded
        /\ th[a].res.status = 201
        /\ \A i \in 1..Len(EntriesOf(store[FileOf(th[b].req.route)])) :
              EntriesOf(store[FileOf(th[b].req.route)])[i] # bQ

\* C11: normalizing twice gives what normalizing once gives, for the records
\* a GET reads from its file, with both rules on and with either or both of
\* them off.
C11_NormalizeIdempotent ==
    Ran("GET") =>
        \A clean, ensure \in BOOLEAN :
            normalize_cfg(normalize_cfg(Before, clean, ensure), clean, ensure)
                = normalize_cfg(Before, clean, ensure)

\* a GET has answered records that normalization changed, and normalizing the
\* answer again changes nothing
C11_Witness ==
    /\ Ran("GET") /\ req.route = "contractors_handler"
    /\ EntriesOf(resp.body) # Before
    /\ \E i \in 1..Len(Before) : DictGet(Before[i], "Termination_Date") = JStr("NA")
    /\ \E i \in 1..Len(Before) : DictGet(Before[i], "IsActive") = JNull
    /\ normalize_for_saviynt(EntriesOf(resp.body)) = EntriesOf(resp.body)

\* the string form of a key-field value: a string is its own text, a number its
\* decimal text, and None (a null or absent field) the text None
StringForm(v) ==
    IF v.t = "str" THEN v.s
    ELSE IF v.t = "num" THEN ToString(v.n)
    ELSE "None"

\* the indexes of the stored records whose key-field value has the path
\* identifier as its string form
SameText ==
    {i \in 1..Len(Before) : StringForm(DictGet(Before[i], local.key_name)) = req.emp_id}

\* C12: update and delete treat a record as matching exactly when the string
\* form of its key-field value is the identifier: a PUT finds a record (200)
\* exactly when there is such a record and changes none that is not one, and a
\* DELETE removes exactly such records; so a numeric key matches its decimal text.
C12_MatchIsStringEquality ==
    /\ Ran("PUT") =>
          /\ (resp.status = 200) = (SameText # {})
          /\ (resp.status = 404) = (SameText = {})
          /\ Len(After) = Len(Before)
          /\ \A i \in 1..Len(Before) : After[i] # Before[i] => i \in SameText
    /\ Ran("DELETE") =>
          /\ (resp.status = 200) = (SameText # {})
          /\ (resp.status = 404) = (SameText = {})
          /\ After = Without(Before, SameText, 1)

\* a DELETE by the text "1" has removed a record whose key is the number 1
C12_Witness ==
    /\ Ran("DELETE") /\ resp.status = 200 /\ req.emp_id = "1"
    /\ \E i \in 1..Len(Before) :
          /\ DictGet(Before[i], local.key_name) = JNum(1)
          /\ \A j \in 1..Len(After) : After[j] # Before[i]

\* C13: a GET on conversion is answered 200 with the stored records as they
\* are stored: no Termination_Date or IsActive is added or rewritten.
C13_ConversionGetUnshaped ==
    (Ran("GET") /\ req.route = "conversion_handler") =>
        /\ resp.status = 200
        /\ EntriesOf(resp.body) = Before
        /\ \A i \in 1..Len(Before) : \A f \in {"Termination_Date", "IsActive"} :
              /\ (f \in DOMAIN EntriesOf(resp.body)[i].map) = (f \in DOMAIN Before[i].map)
              /\ DictGet(EntriesOf(resp.body)[i], f) = DictGet(Before[i], f)

\* a GET on conversion has answered records that the normalizer would change
C13_Witness ==
    /\ Ran("GET") /\ req.route = "conversion_handler"
    /\ \E i \in 1..Len(Before) :
          /\ DictGet(Before[i], "Termination_Date") = JStr("NA")
          /\ "IsActive" \notin DOMAIN Before[i].map
          /\ EntriesOf(resp.body)[i] = Before[i]
    /\ normalize_for_saviynt(Before) # Before

\* C14: a PUT keeps the number of records, and a successful PUT leaves every
\* record but the first matching one as it was, later records with the same
\* key value included.
C14_PutChangesFirstMatchOnly ==
    Ran("PUT") =>
        /\ Len(After) = Len(Before)
        /\ resp.status = 200 =>
              /\ SameText # {}
              /\ \A i \in 1..Len(Before) : i # Min(SameText) => After[i] = Before[i]
        /\ resp.status # 200 => After = Before

\* a PUT has changed the first of two records with the same key and not the second
C14_Witness ==
    /\ Ran("PUT") /\ resp.status = 200
    /\ Cardinality(SameText) >= 2
    /\ After[Min(SameText)] # Before[Min(SameText)]
    /\ \E i \in SameText :
          /\ i > Min(SameText) /\ After[i] = Before[i]
          /\ DictUpdate(Before[i], JDict(BodyFields)) # Before[i]

\* the request came with an absent or malformed body and reached its handler
NoBody(method) == Ran(method) /\ req.body = JNull

\* C15: an absent or malformed body counts as the empty record and is no
\* error: a POST with it is answered 201 and appends the empty record, a PUT
\* with it on a matching identifier is answered 200 and leaves the records as
\* they were, and a PUT with it on any other identifier is the usual 404.
C15_NoBodyIsEmptyRecord ==
    /\ NoBody("POST") =>
          /\ resp.status = 201
          /\ resp.body.map["data"] = EmptyDict
          /\ After = Before \o <<EmptyDict>>
    /\ NoBody("PUT") =>
          /\ resp.status = (IF SameText # {} THEN 200 ELSE 404)
          /\ After = Before

\* a PUT without a body has matched a record, saved, and changed nothing
C15_Witness ==
    /\ NoBody("PUT") /\ resp.status = 200 /\ local.save
    /\ SameText # {} /\ After = Before /\ Before[Min(SameText)] # EmptyDict

\* a document that is neither a sequence nor a mapping holding a sequence
\* under the wrapper key
UnknownShape(doc) == doc.t # "list" /\ ~IsWrapped(doc)

\* C16: on a file of unknown shape every handler works as on an empty bare
\* sequence and raises nothing: GET answers 200 with the empty sequence, PUT
\* and DELETE answer 404, all three leaving the files as they were, and POST
\* answers 201 and stores the bare sequence of the new record alone.
C16_UnknownShapeIsEmpty ==
    (Done /\ local.called /\ UnknownShape(prev[TheFile])) =>
        /\ req.method = "GET" =>
              resp.status = 200 /\ resp.body = JList(<<>>) /\ store = prev
        /\ req.method \in {"PUT", "DELETE"} => resp.status = 404 /\ store = prev
        /\ req.method = "POST" =>
              /\ resp.status = 201
              /\ store[TheFile] = JList(<<JDict(BodyFields)>>)
              /\ \A f \in Files \ {TheFile} : store[f] = prev[f]

\* a POST has replaced a mapping of unknown shape by the sequence of its record
C16_Witness ==
    /\ Ran("POST") /\ UnknownShape(prev[TheFile]) /\ prev[TheFile].t = "dict"
    /\ BodyFields # NoMap
    /\ store[TheFile] = JList(<<req.body>>)

\* rec has no field of the key name the request resolved
Keyless(rec) == local.key_name \notin DOMAIN rec.map

\* C17: a record without the resolved key field is not modified by a PUT and
\* not removed by a DELETE, whatever the path identifier.
C17_KeylessUntouched ==
    /\ Ran("PUT") =>
          \A i \in 1..Len(Before) :
              Keyless(Before[i]) => i <= Len(After) /\ After[i] = Before[i]
    /\ Ran("DELETE") =>
          SelectSeq(After, Keyless) = SelectSeq(Before, Keyless)

\* C18: a request the gate answers 401 or 403 does not reach its handler, and
\* every file holds after it what it held before, on every route and method.
C18_RejectedChangesNothing ==
    (Done /\ resp.status \in {401, 403}) =>
        /\ ~local.called /\ ~local.save
        /\ \A f \in Files : store[f] = prev[f]

\* a POST with a wrong token was refused where its handler would have saved
C18_Witness ==
    /\ Done /\ req.method = "POST" /\ resp.status = 403
    /\ ~local.called /\ store = prev
    /\ Handler(req, prev[TheFile]).save
    /\ Handler(req, prev[TheFile]).data # prev[TheFile]

\* a DELETE was served right after a POST on the same collection
DeleteAfterPost ==
    /\ Ran("DELETE") /\ posted # NoPosted /\ FileOf(posted.route) = TheFile

\* the records the POST found
Found == EntriesOf(posted.data)

\* the posted record carries field k with the path identifier as its value
Carries(k) ==
    /\ k \in DOMAIN posted.item.map
    /\ StringForm(posted.item.map[k]) = req.emp_id

\* C19 as stated: a POST of a record that carries some candidate key field with
\* a value no stored record had in any candidate field, followed by a DELETE of
\* that value, is answered 200 and leaves the document the POST found.
C19_AnyCandidateRoundTrip ==
    DeleteAfterPost =>
        \A i \in 1..Len(KeysOf(req.route)) :
            ( /\ Carries(KeysOf(req.route)[i])
              /\ \A j \in 1..Len(Found) : \A c \in 1..Len(KeysOf(req.route)) :
                    StringForm(DictGet(Found[j], KeysOf(req.route)[c])) # req.emp_id )
            => resp.status = 200 /\ store[TheFile] = posted.data

\* the positions of the candidates that are a field of a record the POST found
\* or of the posted record
CandidatesAfterPost ==
    {i \in 1..Len(KeysOf(req.route)) :
        \/ KeysOf(req.route)[i] \in DOMAIN posted.item.map
        \/ \E j \in 1..Len(Found) : KeysOf(req.route)[i] \in DOMAIN Found[j].map}

\* the key field of the DELETE: the first candidate present after the POST
KeyAfterPost == KeysOf(req.route)[Min(CandidatesAfterPost)]

\* the POST found a document of a valid shape and its record carries the key
\* field of the DELETE with the path identifier as its value, a value no record
\* the POST found has in that field (None standing for a record without it)
RoundTripCase ==
    /\ DeleteAfterPost
    /\ ValidShape(posted.data)
    /\ CandidatesAfterPost # {}
    /\ Carries(KeyAfterPost)
    /\ \A j \in 1..Len(Found) : StringForm(DictGet(Found[j], KeyAfterPost)) # req.emp_id

\* C19: a POST, on a bare sequence or a mapping whose only field is the wrapper
\* key, of a record that carries the key field the next DELETE resolves with a
\* value no stored record has in that field, followed by a DELETE of that
\* value, is answered 200 and leaves the document the POST found.
C19_ResolvedKeyRoundTrip ==
    RoundTripCase => resp.status = 200 /\ store[TheFile] = posted.data

\* POST /conversion {"contractorID": "2"} then DELETE /conversion/2 on records
\* that hold other candidates, or on no records
C19_Witness ==
    /\ RoundTripCase /\ resp.status = 200
    /\ req.route = "conversion_update_delete"
    /\ store[TheFile] = posted.data
    /\ prev[TheFile] # store[TheFile]
    /\ \E j \in 1..Len(Found) : "contractorID" \notin DOMAIN Found[j].map

====
